---- MODULE Spec2Model ----
(***************************************************************************)
(* EquiLens: the LLM evaluation runner (backend/run_llm.py), its batch     *)
(* providers (backend/llm/claude.py, backend/llm/gpt5.py), its sequential  *)
(* provider (backend/llm/gemini.py) and the resumable sequential scripts   *)
(* (query_gemini.py, backend/query_claude.py).                             *)
(*                                                                         *)
(* Spec     : run_llm.main and LLMProvider.run of the three providers.     *)
(* SpecSeq  : the query loop of the sequential scripts, with its           *)
(*            checkpoint artifact, over several runs of the process.       *)
(***************************************************************************)
EXTENDS Integers, Sequences, FiniteSets, TLC

\* ------------------------------------------------------------------ bounds

\* Largest number of dataset rows.
MaxRows == 3

\* ------------------------------------------------------------ Python values

\* Python's None, as a value comparable with the strings it stands among.
None == "<None>"

\* The labels MCQResponse.answer admits.
Labels == {"A", "B", "C", "D"}

\* ----------------------------------------------------------- the dataset

\* The columns of the dataset's DataFrame.
DataColumns == {"qid", "grp", "ans", "text"}

\* Row i of the dataset file; every third row has a null answer field.
RowAt(i) ==
    [qid  |-> "q" \o ToString(i),
     grp  |-> IF i % 2 = 1 THEN "a" ELSE "b",
     ans  |-> IF i % 3 = 0 THEN None ELSE IF i % 2 = 1 THEN "A" ELSE "B",
     text |-> "t" \o ToString(i)]

Prefix(n) == [i \in 1..n |-> RowAt(i)]

\* The datasets: the first n rows of the file, or the first n - 1 rows
\* followed by a second row with the identifier fields of row 1.
Datasets ==
    {Prefix(n) : n \in 1..MaxRows}
        \cup {Append(Prefix(n - 1), [RowAt(1) EXCEPT !.text = "dup"]) : n \in 2..MaxRows}

\* n_samples, the default of _dry_run.
N_SAMPLES == 3

\* A dataset with more rows than a dry run samples (considered for dry runs).
LongDataset == Prefix(N_SAMPLES + 2)

\* ------------------------------------------------------ composite identifier

\* str(v) of a field value of the all-text datasets above: the text itself.
PyStr(v) == v

RECURSIVE JoinSep(_)
\* "__".join(parts)
JoinSep(parts) ==
    IF parts = <<>> THEN ""
    ELSE IF Len(parts) = 1 THEN parts[1]
    ELSE parts[1] \o "__" \o JoinSep(Tail(parts))

\* _make_custom_id(row, config): "__".join(str(row[col]) for col in id_columns)
MakeCustomId(row, id_columns) ==
    JoinSep([k \in 1..Len(id_columns) |-> PyStr(row[id_columns[k]])])

\* The _custom_id column of _merge_results:
\* df[id_columns].astype(str).agg("__".join, axis=1), for row i.
CustomIdColumn(data, id_columns, i) ==
    JoinSep([k \in 1..Len(id_columns) |-> PyStr(data[i][id_columns[k]])])

\* --------------------------------------------------------- provider output

\* A response text, by what json parsing and MCQResponse validation see of it.
TxtValidA   == [kind |-> "object", answer |-> "A", extra |-> FALSE]
TxtExtraB   == [kind |-> "object", answer |-> "B", extra |-> TRUE]
TxtBadLabel == [kind |-> "object", answer |-> "E", extra |-> FALSE]
TxtNoAnswer == [kind |-> "object", answer |-> None, extra |-> TRUE]
TxtNotJson  == [kind |-> "text",   answer |-> None, extra |-> FALSE]
TxtEmpty    == [kind |-> "empty",  answer |-> None, extra |-> FALSE]
TxtNone     == [kind |-> "none",   answer |-> None, extra |-> FALSE]

\* The output-shape constraint of the spec: an object with the single field
\* `answer`, whose value is one of the labels.
SingleAnswerObject(t) == t.kind = "object" /\ t.answer \in Labels /\ ~t.extra

\* A validation that accepts every JSON object, whatever its `answer`.
ValidatesAnyObject(t) == t.kind = "object"

\* MCQResponse.model_validate_json(text) returns (does not raise): the text is
\* a JSON object whose `answer` is one of the labels. The model's config sets
\* json_schema_extra only, so validation ignores extra fields.
Validates(t) == t.kind = "object" /\ t.answer \in Labels

\* not text: Python's truth value of a str or None.
Falsy(t) == t.kind \in {"empty", "none"}

\* ------------------------------------------------- Claude: result entries

\* What one entry of messages.batches.results(batch_id) can be: its
\* result.type, whether message.content has a first block, that block's text,
\* and whether the message stopped at max_tokens (which the code never reads).
ClaudeKinds ==
    {[custom_id |-> "", type |-> "succeeded", has_content |-> TRUE,  text |-> TxtValidA,   truncated |-> FALSE],
     [custom_id |-> "", type |-> "succeeded", has_content |-> TRUE,  text |-> TxtExtraB,   truncated |-> FALSE],
     [custom_id |-> "", type |-> "succeeded", has_content |-> TRUE,  text |-> TxtBadLabel, truncated |-> FALSE],
     [custom_id |-> "", type |-> "succeeded", has_content |-> TRUE,  text |-> TxtNotJson,  truncated |-> TRUE],
     [custom_id |-> "", type |-> "succeeded", has_content |-> FALSE, text |-> TxtNone,     truncated |-> FALSE],
     [custom_id |-> "", type |-> "errored",   has_content |-> FALSE, text |-> TxtNone,     truncated |-> FALSE],
     [custom_id |-> "", type |-> "expired",   has_content |-> FALSE, text |-> TxtNone,     truncated |-> FALSE],
     [custom_id |-> "", type |-> "canceled",  has_content |-> FALSE, text |-> TxtNone,     truncated |-> FALSE]}

\* One result_map value.
Result(response, status) == [response |-> response, result_status |-> status]

\* result_map[cid] = value
Put(map, cid, value) ==
    [c \in DOMAIN map \cup {cid} |-> IF c = cid THEN value ELSE map[c]]

EmptyMap == [c \in {} |-> Result(None, "missing")]

\* The body of the loop of ClaudeProvider._retrieve_results for one entry.
ClaudeClassify(e) ==
    IF e.type = "succeeded"
    THEN IF e.has_content /\ Validates(e.text)
         THEN Result(e.text.answer, "succeeded")
         ELSE Result(None, "parse_error")
    ELSE Result(None, e.type)

RECURSIVE ClaudeRetrieveResults(_, _)
\* ClaudeProvider._retrieve_results over the entries of the result stream.
ClaudeRetrieveResults(stream, map) ==
    IF stream = <<>> THEN map
    ELSE ClaudeRetrieveResults(
             Tail(stream),
             Put(map, Head(stream).custom_id, ClaudeClassify(Head(stream))))

\* -------------------------------------------------- GPT-5: output file lines

\* What one line of the batch output file can be: whether it has a
\* "response", its status_code, whether the response has a "body" and the body
\* "choices", the choice's finish_reason and the message content.
GPT5Kinds ==
    {[custom_id |-> "", has_response |-> TRUE,  status_code |-> 200, has_body |-> TRUE,  has_choices |-> TRUE,  finish_reason |-> "stop",   text |-> TxtValidA],
     [custom_id |-> "", has_response |-> TRUE,  status_code |-> 200, has_body |-> TRUE,  has_choices |-> TRUE,  finish_reason |-> "stop",   text |-> TxtExtraB],
     [custom_id |-> "", has_response |-> TRUE,  status_code |-> 200, has_body |-> TRUE,  has_choices |-> TRUE,  finish_reason |-> "stop",   text |-> TxtBadLabel],
     [custom_id |-> "", has_response |-> TRUE,  status_code |-> 200, has_body |-> TRUE,  has_choices |-> TRUE,  finish_reason |-> "length", text |-> TxtNotJson],
     [custom_id |-> "", has_response |-> TRUE,  status_code |-> 200, has_body |-> TRUE,  has_choices |-> TRUE,  finish_reason |-> "length", text |-> TxtEmpty],
     [custom_id |-> "", has_response |-> TRUE,  status_code |-> 200, has_body |-> TRUE,  has_choices |-> TRUE,  finish_reason |-> "stop",   text |-> TxtNone],
     [custom_id |-> "", has_response |-> TRUE,  status_code |-> 200, has_body |-> TRUE,  has_choices |-> FALSE, finish_reason |-> "stop",   text |-> TxtNone],
     [custom_id |-> "", has_response |-> TRUE,  status_code |-> 500, has_body |-> TRUE,  has_choices |-> FALSE, finish_reason |-> "stop",   text |-> TxtNone],
     [custom_id |-> "", has_response |-> FALSE, status_code |-> 0,   has_body |-> FALSE, has_choices |-> FALSE, finish_reason |-> "stop",   text |-> TxtNone]}

\* status_code = response_body.get("status_code", 0)
StatusCode(e) == IF e.has_response THEN e.status_code ELSE 0

\* The try block of GPT5Provider._retrieve_results raises before
\* message_content is assigned: body or choices is missing.
RaisesBeforeContent(e) == ~e.has_body \/ ~e.has_choices

\* The body of the loop of GPT5Provider._retrieve_results for one line whose
\* handling does not leave the function.
GPT5Classify(e) ==
    IF StatusCode(e) = 200
    THEN IF RaisesBeforeContent(e) THEN Result(None, "parse_error")
         ELSE IF e.finish_reason = "length" THEN Result(None, "token_limit")
         ELSE IF Falsy(e.text) THEN Result(None, "empty_content")
         ELSE IF Validates(e.text) THEN Result(e.text.answer, "succeeded")
         ELSE Result(None, "parse_error")
    ELSE Result(None, "errored")

\* The except handler formats (message_content or "")[:200]: it raises
\* UnboundLocalError when no line of this call has assigned message_content.
HandlerRaises(e, bound) ==
    StatusCode(e) = 200 /\ RaisesBeforeContent(e) /\ ~bound

RECURSIVE GPT5RetrieveResults(_, _, _)
\* GPT5Provider._retrieve_results over the lines of the output file; `bound`
\* is whether the local message_content has been assigned.
GPT5RetrieveResults(lines, map, bound) ==
    IF lines = <<>> THEN [result_map |-> map, raised |-> FALSE]
    ELSE LET e == Head(lines) IN
         IF HandlerRaises(e, bound)
         THEN [result_map |-> map, raised |-> TRUE]
         ELSE GPT5RetrieveResults(
                  Tail(lines),
                  Put(map, e.custom_id, GPT5Classify(e)),
                  bound \/ (StatusCode(e) = 200 /\ ~RaisesBeforeContent(e)))

\* ------------------------------------------------------------ reconciliation

\* result_map.get(cid, {}).get("response")
LookupResponse(map, cid) == IF cid \in DOMAIN map THEN map[cid].response ELSE None

\* A lookup whose default is the provider's error status.
LookupStatusDefaultErrored(map, cid) ==
    IF cid \in DOMAIN map THEN map[cid].result_status ELSE "errored"

\* A lookup with no default: result_map.get(cid, {}).get("result_status").
LookupStatusNoDefault(map, cid) ==
    IF cid \in DOMAIN map THEN map[cid].result_status ELSE None

\* result_map.get(cid, {}).get("result_status", "missing")
LookupStatus(map, cid) ==
    IF cid \in DOMAIN map THEN map[cid].result_status ELSE "missing"

\* A merge that keeps only the rows with a result (an inner join).
MergeResultsInnerJoin(data, map, batch_id, id_columns) ==
    LET kept == SelectSeq([i \in 1..Len(data) |-> i],
                          LAMBDA i : CustomIdColumn(data, id_columns, i) \in DOMAIN map)
    IN  [j \in 1..Len(kept) |->
            [row           |-> data[kept[j]],
             response      |-> LookupResponse(map, CustomIdColumn(data, id_columns, kept[j])),
             result_status |-> LookupStatus(map, CustomIdColumn(data, id_columns, kept[j])),
             batch_id      |-> batch_id]]

\* _merge_results(df, result_map, batch_id, config): the rows of df, each with
\* response, result_status and batch_id.
MergeResults(data, map, batch_id, id_columns) ==
    [i \in 1..Len(data) |->
        [row           |-> data[i],
         response      |-> LookupResponse(map, CustomIdColumn(data, id_columns, i)),
         result_status |-> LookupStatus(map, CustomIdColumn(data, id_columns, i)),
         batch_id      |-> batch_id]]

\* ------------------------------------------------------------------- state

VARIABLES
    pc,             \* position of the run
    entry,          \* "main": run_llm.main; "provider": LLMProvider.run called directly
    dry_run,        \* args.dry_run
    config,         \* the LLMConfig
    df,             \* the dataset rows
    user_template,  \* the placeholders of the user template, in order
    provider,       \* name of the instantiated provider class
    requests,       \* custom_id of each request built
    job,            \* the job at the provider
    content,        \* what the provider returned: the job's results / Gemini's calls
    result_map,     \* result_map of _retrieve_results
    df_results,     \* the DataFrame provider.run returns
    responses,      \* GeminiProvider.run: the responses and statuses lists
    result_file,    \* the result artifact (Parquet)
    config_copy,    \* the copy of the configuration next to it
    err,            \* the exception that ended the run
    raw,            \* from_yaml: the YAML document read, until the LLMConfig is built
    printed         \* _dry_run: the qid of each sample request logged

varsMain == <<pc, entry, dry_run, config, df, user_template, provider, requests,
              job, content, result_map, df_results, responses, result_file,
              config_copy, err, raw, printed>>

\* The sequential loops: the scripts query_gemini.py and query_claude.py, and
\* the loop of GeminiProvider.run.
VARIABLES
    spc,            \* position of the process: "idle", "loop", "finished"
    runner,         \* whose loop runs
    rpm,            \* args.rpm (DEFAULT_RPM in GeminiProvider.run)
    ids,            \* df["id"] after head(args.n)
    out_file,       \* the checkpoint artifact at args.output
    prev,           \* the rows read from it at the start of the run
    seq_responses,  \* the list `responses` of the loop
    idx,            \* the loop's position in df, from 1
    completed,      \* completed
    errors,         \* errors
    calls,          \* the id of each remote call this run issued, in order
    last_call,      \* the last call: its elapsed, whether it raised, the time since its t0
    gap             \* the time between the t0 of the last two calls, and the first one's course

varsSeq == <<spc, runner, rpm, ids, out_file, prev, seq_responses, idx, completed,
             errors, calls, last_call, gap>>

\* The provider registry of llm/provider.py and the objects made from it.
VARIABLES
    PROVIDERS,      \* _PROVIDERS: name -> class
    api_keys,       \* the providers whose API key is in the environment
    instances,      \* the class of each provider object constructed, in order
    outcome         \* what the last call of get_provider did

varsReg == <<PROVIDERS, api_keys, instances, outcome>>

\* The query loop of the sequential scripts by its counts, for runs longer
\* than the checkpoint cadence.
VARIABLES
    cad_pc,         \* position of the process: "idle", "loop", "finished", "crashed"
    cad_len,        \* len(df)
    cad_i,          \* rows of df the loop has passed, skipped ones included
    cad_completed,  \* completed
    cad_errors,     \* errors
    cad_unsaved     \* rows called in this run whose response is not in the artifact

varsCad == <<cad_pc, cad_len, cad_i, cad_completed, cad_errors, cad_unsaved>>

\* The two computations of the composite identifier, over DataFrames whose
\* columns have a dtype.
VARIABLES
    id_pc,          \* position of the run: "idle", "loaded", "built", "merged"
    frame,          \* the DataFrame: the dtype of each column, and the rows
    key_columns,    \* config.id_columns
    built_ids,      \* the custom_id of each request built, in row order
    merged_ids,     \* the _custom_id column of _merge_results
    first_ids,      \* built_ids of the run before, on the same data and configuration
    id_runs         \* the runs started on this data and configuration

varsId == <<id_pc, frame, key_columns, built_ids, merged_ids, first_ids, id_runs>>

\* What the actions of one part of the program leave alone.
varsNotMain == <<varsSeq, varsReg, varsCad, varsId>>
varsNotSeq == <<varsMain, varsReg, varsCad, varsId>>
varsNotReg == <<varsMain, varsSeq, varsCad, varsId>>
varsNotCad == <<varsMain, varsSeq, varsReg, varsId>>
varsNotId == <<varsMain, varsSeq, varsReg, varsCad>>

NoConfig == [provider |-> "", id_columns |-> <<>>, answer_column |-> ""]
NoJob == [exists |-> FALSE, input_file |-> FALSE, status |-> "", fate |-> "", submits |-> 0,
          output |-> ""]

\* --------------------------------------------------------- configuration

\* Provider names a configuration document may carry.
ProviderNames == {"claude", "gpt5", "gemini", "llama"}

IdColumnChoices == {<<>>, <<"qid">>, <<"qid", "grp">>, <<"qid", "nope">>}

\* The YAML documents: `unknown` is a key that is no field of LLMConfig,
\* `omits` a required field the document leaves out ("" for none).
OmitChoices == {"", "seed", "output_dir"}
ConfigDocs ==
    [provider : ProviderNames, id_columns : IdColumnChoices,
     answer_column : {"ans", "nope"}, unknown : BOOLEAN, omits : OmitChoices]

\* No document is being loaded.
NoRaw == [provider |-> "", id_columns |-> <<>>, answer_column |-> "",
          unknown |-> FALSE, omits |-> ""]

\* The placeholders of the user templates.
Templates == {<<"text">>, <<"text", "nope">>}

\* LLMConfig(**raw) validates: provider: Literal["claude", "gpt5"] and the
\* id_columns validator (at least one column name).
ConfigLiteral == {"claude", "gpt5"}
LLMConfigValid(doc) ==
    doc.provider \in ConfigLiteral /\ doc.id_columns # <<>> /\ doc.omits = ""

\* The LLMConfig built from a valid document: extra="ignore" drops the keys
\* that are no field.
LLMConfig(doc) ==
    [provider |-> doc.provider, id_columns |-> doc.id_columns,
     answer_column |-> doc.answer_column]

\* _PROVIDERS after `import llm`: llm/__init__.py imports llm.claude and
\* llm.gemini, whose decorators register them.
Registry == {"claude", "gemini"}

\* The provider classes.
ProviderClasses == {"claude", "gpt5", "gemini"}
BatchProviders == {"claude", "gpt5"}

SeqToSet(s) == {s[k] : k \in 1..Len(s)}

\* A validation that leaves out the answer column.
ValidateDataSkipsAnswer(cfg, tmpl) ==
    \/ \E c \in SeqToSet(cfg.id_columns) : c \notin DataColumns
    \/ \E p \in SeqToSet(tmpl) : p \notin DataColumns

\* _validate_data(df, config, user_template) raises ValueError.
ValidateDataRaises(cfg, tmpl) ==
    \/ \E c \in SeqToSet(cfg.id_columns) : c \notin DataColumns
    \/ cfg.answer_column \notin DataColumns
    \/ \E p \in SeqToSet(tmpl) : p \notin DataColumns

\* format_user_prompt(template, row) raises KeyError: str.format(**row)
\* with a placeholder that is no key of the row.
FormatRaises(tmpl) == \E p \in SeqToSet(tmpl) : p \notin DataColumns

\* _make_custom_id(row, config) raises KeyError: row[col] of a missing column.
CustomIdRaises(cfg) == \E c \in SeqToSet(cfg.id_columns) : c \notin DataColumns

\* ------------------------------------------------------------------ Init

MainInit ==
    /\ pc = "start"
    /\ entry \in {"main", "provider"}
    /\ dry_run = FALSE
    /\ config = NoConfig
    /\ df = <<>>
    /\ user_template = <<>>
    /\ provider = ""
    /\ requests = <<>>
    /\ job = NoJob
    /\ content = <<>>
    /\ result_map = EmptyMap
    /\ df_results = <<>>
    /\ responses = <<>>
    /\ result_file = "absent"
    /\ config_copy = "absent"
    /\ err = ""
    /\ raw = NoRaw
    /\ printed = <<>>

\* An exception leaves the run.
Raise(e) == pc' = "aborted" /\ err' = e

\* ------------------------------------------------------- run_llm.main

\* parse_args() and the first half of LLMConfig.from_yaml(args.config):
\* raw = yaml.safe_load(fh).
ReadYaml ==
    /\ pc = "start" /\ entry = "main"
    /\ \E doc \in ConfigDocs, dr \in BOOLEAN :
        /\ dry_run' = dr
        /\ raw' = doc
    /\ pc' = "from_yaml"
    /\ UNCHANGED <<entry, config, df, user_template, provider, requests, job, content,
                   result_map, df_results, responses, result_file, config_copy, err>>
    /\ UNCHANGED <<printed, varsNotMain>>

\* The second half of from_yaml: return cls(**raw).
LoadConfig ==
    /\ pc = "from_yaml"
    /\ IF LLMConfigValid(raw)
       THEN config' = LLMConfig(raw) /\ pc' = "load_data" /\ err' = err /\ raw' = NoRaw
       ELSE config' = config /\ Raise("ValidationError") /\ raw' = raw
    /\ UNCHANGED <<entry, dry_run, df, user_template, provider, requests, job, content,
                   result_map, df_results, responses, result_file, config_copy>>
    /\ UNCHANGED <<printed, varsNotMain>>

\* data_path.exists() and pd.read_parquet(data_path).
LoadData ==
    /\ pc = "load_data"
    /\ \/ /\ Raise("FileNotFoundError")
          /\ df' = df
       \/ /\ \E d \in Datasets \cup (IF dry_run THEN {LongDataset} ELSE {}) : df' = d
          /\ pc' = "load_prompts" /\ err' = err
    /\ UNCHANGED <<entry, dry_run, config, user_template, provider, requests, job,
                   content, result_map, df_results, responses, result_file,
                   config_copy>>
    /\ UNCHANGED <<raw, printed, varsNotMain>>

\* load_prompts(config.system_prompt, config.user_prompt).
LoadPrompts ==
    /\ pc = "load_prompts"
    /\ \/ /\ Raise("OSError:load_prompts")
          /\ user_template' = user_template
       \/ /\ \E t \in Templates : user_template' = t
          /\ pc' = "validate" /\ err' = err
    /\ UNCHANGED <<entry, dry_run, config, df, provider, requests, job, content,
                   result_map, df_results, responses, result_file, config_copy>>
    /\ UNCHANGED <<raw, printed, varsNotMain>>

\* _validate_data(df, config, user_template).
ValidateData ==
    /\ pc = "validate"
    /\ IF ValidateDataRaises(config, user_template)
       THEN Raise("ValueError")
       ELSE pc' = "dispatch" /\ err' = err
    /\ UNCHANGED <<entry, dry_run, config, df, user_template, provider, requests,
                   job, content, result_map, df_results, responses, result_file,
                   config_copy>>
    /\ UNCHANGED <<raw, printed, varsNotMain>>

\* The whole table in place of its head.
DfHeadAll(data, n) == data

\* df.head(n)
DfHead(data, n) == SubSeq(data, 1, IF Len(data) < n THEN Len(data) ELSE n)

\* if args.dry_run: _dry_run(...); return. _dry_run logs one sample request
\* for each row of df.head(n_samples).
DryRun ==
    /\ pc = "dispatch" /\ dry_run
    /\ printed' = [k \in 1..Len(DfHead(df, N_SAMPLES)) |-> DfHead(df, N_SAMPLES)[k].qid]
    /\ pc' = "done"
    /\ UNCHANGED <<entry, dry_run, config, df, user_template, provider, requests,
                   job, content, result_map, df_results, responses, result_file,
                   config_copy, err>>
    /\ UNCHANGED <<raw, varsNotMain>>

\* A runner that saves the copy of the configuration before the run.
GetProviderCopiesConfigFirst ==
    /\ pc = "dispatch" /\ ~dry_run
    /\ config_copy' = "written"
    /\ IF config.provider \notin Registry
       THEN Raise("KeyError") /\ provider' = provider
       ELSE provider' = config.provider /\ pc' = "run" /\ err' = err
    /\ UNCHANGED <<entry, dry_run, config, df, user_template, requests, job,
                   content, result_map, df_results, responses, result_file>>
    /\ UNCHANGED <<raw, printed, varsNotMain>>

\* get_provider(config.provider): KeyError for a name that is not registered,
\* else the class is instantiated. (The only registered name LLMConfig admits
\* is "claude", whose constructor reads no key itself.)
GetProvider ==
    /\ pc = "dispatch" /\ ~dry_run
    /\ IF config.provider \notin Registry
       THEN Raise("KeyError") /\ provider' = provider
       ELSE provider' = config.provider /\ pc' = "run" /\ err' = err
    /\ UNCHANGED <<entry, dry_run, config, df, user_template, requests, job,
                   content, result_map, df_results, responses, result_file,
                   config_copy>>
    /\ UNCHANGED <<raw, printed, varsNotMain>>

\* A caller other than main instantiates a provider and calls
\* run(df, config, system_prompt, user_template) on it, with an LLMConfig
\* (run never reads its provider or its answer_column).
CallRun ==
    /\ pc = "start" /\ entry = "provider"
    /\ \E p \in ProviderClasses, doc \in ConfigDocs, d \in Datasets, t \in Templates :
        /\ LLMConfigValid(doc) /\ doc.answer_column = "ans"
        /\ doc.provider = (IF p \in ConfigLiteral THEN p ELSE "claude")
        /\ provider' = p /\ config' = LLMConfig(doc) /\ df' = d /\ user_template' = t
    /\ pc' = "run"
    /\ UNCHANGED <<entry, dry_run, requests, job, content, result_map, df_results,
                   responses, result_file, config_copy, err>>
    /\ UNCHANGED <<raw, printed, varsNotMain>>

\* --------------------------------------------- LLMProvider.run, batch style

\* _build_batch_requests: one request per row, in row order. The first row
\* already raises KeyError when a placeholder or an identifier column is
\* missing, so no request is built then.
BuildRequests(data, cfg) ==
    [i \in 1..Len(data) |-> MakeCustomId(data[i], cfg.id_columns)]

Build ==
    /\ pc = "run" /\ provider \in BatchProviders
    /\ IF FormatRaises(user_template) \/ CustomIdRaises(config)
       THEN Raise("KeyError") /\ requests' = requests
       ELSE requests' = BuildRequests(df, config) /\ pc' = "submit" /\ err' = err
    /\ UNCHANGED <<entry, dry_run, config, df, user_template, provider, job,
                   content, result_map, df_results, responses, result_file,
                   config_copy>>
    /\ UNCHANGED <<raw, printed, varsNotMain>>

\* ClaudeProvider._submit_batch: messages.batches.create(requests=requests).
SubmitClaude ==
    /\ pc = "submit" /\ provider = "claude"
    /\ \/ /\ Raise("APIError")
          /\ job' = [job EXCEPT !.submits = @ + 1]
       \/ /\ job' = [exists |-> TRUE, input_file |-> FALSE, status |-> "in_progress",
                     fate |-> "", submits |-> job.submits + 1,
                     output |-> ""]
          /\ pc' = "poll" /\ err' = err
    /\ UNCHANGED <<entry, dry_run, config, df, user_template, provider, requests,
                   content, result_map, df_results, responses, result_file,
                   config_copy>>
    /\ UNCHANGED <<raw, printed, varsNotMain>>

\* GPT5Provider._upload_and_submit: files.create, then batches.create.
SubmitGPT5 ==
    /\ pc = "submit" /\ provider = "gpt5"
    /\ \/ /\ Raise("APIError")          \* files.create raises
          /\ job' = [job EXCEPT !.submits = @ + 1]
       \/ /\ Raise("APIError")          \* batches.create raises
          /\ job' = [job EXCEPT !.input_file = TRUE, !.submits = @ + 1]
       \/ /\ job' = [exists |-> TRUE, input_file |-> TRUE, status |-> "in_progress",
                     fate |-> "", submits |-> job.submits + 1,
                     output |-> ""]
          /\ pc' = "poll" /\ err' = err
    /\ UNCHANGED <<entry, dry_run, config, df, user_template, provider, requests,
                   content, result_map, df_results, responses, result_file,
                   config_copy>>
    /\ UNCHANGED <<raw, printed, varsNotMain>>

\* How a job can end at the provider. An OpenAI batch reports it as its
\* status; an Anthropic batch reports processing_status "ended" however it
\* ended, and the requests it did not process as expired or canceled.
Fates(p) ==
    IF p = "claude" THEN {"completed", "expired", "canceled"}
    ELSE {"completed", "failed", "expired", "canceled"}

TerminalStatus(p, fate) ==
    IF p = "claude" THEN "ended"
    ELSE IF fate = "canceled" THEN "cancelled" ELSE fate

\* The provider ends the job.
JobEnds ==
    /\ job.exists /\ job.status = "in_progress"
    /\ \E f \in Fates(provider) :
        job' = [job EXCEPT !.fate = f, !.status = TerminalStatus(provider, f)]
    /\ UNCHANGED <<pc, entry, dry_run, config, df, user_template, provider,
                   requests, content, result_map, df_results, responses,
                   result_file, config_copy, err>>
    /\ UNCHANGED <<raw, printed, varsNotMain>>

\* A set of terminal statuses that leaves out "expired".
TerminalStatusesNoExpired == {"completed", "failed", "cancelled"}

\* terminal_statuses of GPT5Provider._poll_batch.
terminal_statuses == {"completed", "failed", "expired", "cancelled"}

\* A poll that is fatal for a failed job only.
GPT5PollRaisesOnFailedOnly(status) == status = "failed"

\* GPT5Provider._poll_batch raises RuntimeError on this terminal status.
GPT5PollRaises(status) == status # "completed"

\* A poll that returns after its first status fetch, whatever the status.
PollClaudeNoWait ==
    /\ pc = "poll" /\ provider = "claude"
    /\ pc' = "retrieve"
    /\ UNCHANGED <<entry, dry_run, config, df, user_template, provider, requests,
                   job, content, result_map, df_results, responses, result_file,
                   config_copy, err>>
    /\ UNCHANGED <<raw, printed, varsNotMain>>

\* One iteration of ClaudeProvider._poll_batch up to its return or sleep.
PollClaude ==
    /\ pc = "poll" /\ provider = "claude"
    /\ IF job.status = "ended" THEN pc' = "retrieve" ELSE pc' = "poll_sleep"
    /\ UNCHANGED <<entry, dry_run, config, df, user_template, provider, requests,
                   job, content, result_map, df_results, responses, result_file,
                   config_copy, err>>
    /\ UNCHANGED <<raw, printed, varsNotMain>>

\* One iteration of GPT5Provider._poll_batch up to its return, raise or sleep.
PollGPT5 ==
    /\ pc = "poll" /\ provider = "gpt5"
    /\ IF job.status \in terminal_statuses
       THEN IF GPT5PollRaises(job.status)
            THEN Raise("RuntimeError")
            ELSE pc' = "retrieve" /\ err' = err
       ELSE pc' = "poll_sleep" /\ err' = err
    /\ UNCHANGED <<entry, dry_run, config, df, user_template, provider, requests,
                   job, content, result_map, df_results, responses, result_file,
                   config_copy>>
    /\ UNCHANGED <<raw, printed, varsNotMain>>

\* time.sleep(interval), then the loop's next iteration.
PollSleep ==
    /\ pc = "poll_sleep"
    /\ pc' = "poll"
    /\ UNCHANGED <<entry, dry_run, config, df, user_template, provider, requests,
                   job, content, result_map, df_results, responses, result_file,
                   config_copy, err>>
    /\ UNCHANGED <<raw, printed, varsNotMain>>

RECURSIVE StreamOf(_, _, _, _)
\* The results the provider returns: for the requests in `present`, in request
\* order, the entry of the kind the provider chose for each.
StreamOf(reqs, present, kindOf, k) ==
    IF k > Len(reqs) THEN <<>>
    ELSE (IF k \in present THEN <<[kindOf[k] EXCEPT !.custom_id = reqs[k]]>> ELSE <<>>)
             \o StreamOf(reqs, present, kindOf, k + 1)

\* An entry for an identifier no request carries.
StrayId == "zz"
StrayClaude == [custom_id |-> StrayId, type |-> "succeeded", has_content |-> TRUE,
                text |-> TxtValidA, truncated |-> FALSE]
StrayGPT5 == [custom_id |-> StrayId, has_response |-> TRUE, status_code |-> 200,
              has_body |-> TRUE, has_choices |-> TRUE, finish_reason |-> "stop",
              text |-> TxtValidA]

\* The entry kinds a Claude job that ended as `fate` can hold.
ClaudeKindsOf(fate) ==
    {k \in ClaudeKinds :
        /\ k.type = "expired" => fate = "expired"
        /\ k.type = "canceled" => fate = "canceled"}

\* ClaudeProvider._retrieve_results, up to its return statement.
RetrieveClaude ==
    /\ pc = "retrieve" /\ provider = "claude"
    /\ \E present \in SUBSET (1..Len(requests)), stray \in BOOLEAN :
        \E kindOf \in [present -> ClaudeKindsOf(job.fate)] :
            LET stream == StreamOf(requests, present, kindOf, 1)
                              \o (IF stray THEN <<StrayClaude>> ELSE <<>>)
            IN  /\ content' = stream
                /\ result_map' = ClaudeRetrieveResults(stream, EmptyMap)
    /\ pc' = "merge"
    /\ UNCHANGED <<entry, dry_run, config, df, user_template, provider, requests,
                   job, df_results, responses, result_file, config_copy, err>>
    /\ UNCHANGED <<raw, printed, varsNotMain>>

\* A retrieval that records every request as errored when the job has no
\* output file.
NoOutputAllErrored(reqs) ==
    [c \in {reqs[k] : k \in 1..Len(reqs)} |-> Result(None, "errored")]

\* What _retrieve_results returns when batch.output_file_id is empty: {}.
NoOutputResult(reqs) == EmptyMap

\* What the completed job holds for _retrieve_results: an output file, an
\* error file only, or neither.
OutputKinds == {"file", "error_file", "none"}

\* GPT5Provider._retrieve_results, up to its return statement or the raise that
\* leaves it. Without an output file it returns {} (after logging the error
\* file, if there is one).
RetrieveGPT5 ==
    /\ pc = "retrieve" /\ provider = "gpt5"
    /\ \/ \E o \in OutputKinds \ {"file"} :
            /\ job' = [job EXCEPT !.output = o]
            /\ content' = <<>>
            /\ result_map' = NoOutputResult(requests)
            /\ pc' = "merge" /\ err' = err
       \/ \E present \in SUBSET (1..Len(requests)), stray \in BOOLEAN :
            \E kindOf \in [present -> GPT5Kinds] :
                LET lines == StreamOf(requests, present, kindOf, 1)
                                 \o (IF stray THEN <<StrayGPT5>> ELSE <<>>)
                    got == GPT5RetrieveResults(lines, EmptyMap, FALSE)
                IN  /\ job' = [job EXCEPT !.output = "file"]
                    /\ content' = lines
                    /\ result_map' = got.result_map
                    /\ IF got.raised
                       THEN Raise("UnboundLocalError")
                       ELSE pc' = "merge" /\ err' = err
    /\ UNCHANGED <<entry, dry_run, config, df, user_template, provider, requests,
                   df_results, responses, result_file, config_copy>>
    /\ UNCHANGED <<raw, printed, varsNotMain>>

\* _merge_results, and run returns.
Merge ==
    /\ pc = "merge"
    /\ df_results' = MergeResults(df, result_map, "batch", config.id_columns)
    /\ pc' = "returned"
    /\ UNCHANGED <<entry, dry_run, config, df, user_template, provider, requests,
                   job, content, result_map, responses, result_file, config_copy,
                   err>>
    /\ UNCHANGED <<raw, printed, varsNotMain>>

\* ------------------------------------------------------ GeminiProvider.run

\* What one generate_content call can do: raise, or return a result whose
\* text is one of these.
GeminiOutcomes ==
    {[raised |-> TRUE,  text |-> TxtNone],
     [raised |-> FALSE, text |-> TxtValidA],
     [raised |-> FALSE, text |-> TxtExtraB],
     [raised |-> FALSE, text |-> TxtBadLabel],
     [raised |-> FALSE, text |-> TxtNone]}

\* The try/except of the loop of GeminiProvider.run for one call.
GeminiClassify(o) ==
    IF ~o.raised /\ Validates(o.text)
    THEN Result(o.text.answer, "succeeded")
    ELSE Result(None, "errored")

\* One iteration of the loop of GeminiProvider.run. format_user_prompt is
\* outside the try: its KeyError leaves run.
GeminiCall ==
    /\ pc = "run" /\ provider = "gemini"
    /\ Len(responses) < Len(df)
    /\ IF FormatRaises(user_template)
       THEN Raise("KeyError") /\ UNCHANGED <<content, responses>>
       ELSE /\ \E o \in GeminiOutcomes :
                /\ content' = Append(content, o)
                /\ responses' = Append(responses, GeminiClassify(o))
            /\ UNCHANGED <<pc, err>>
    /\ UNCHANGED <<entry, dry_run, config, df, user_template, provider, requests,
                   job, result_map, df_results, result_file, config_copy>>
    /\ UNCHANGED <<raw, printed, varsNotMain>>

\* The end of GeminiProvider.run: df with the response and result_status columns.
GeminiReturn ==
    /\ pc = "run" /\ provider = "gemini"
    /\ Len(responses) = Len(df)
    /\ df_results' = [i \in 1..Len(df) |->
                         [row           |-> df[i],
                          response      |-> responses[i].response,
                          result_status |-> responses[i].result_status]]
    /\ pc' = "returned"
    /\ UNCHANGED <<entry, dry_run, config, df, user_template, provider, requests,
                   job, content, result_map, responses, result_file, config_copy,
                   err>>
    /\ UNCHANGED <<raw, printed, varsNotMain>>

\* ------------------------------------------------ run_llm.main, after run

\* The == of Python on two values: None equals None.
PlainEq(a, b) == a = b

\* One element of `left == right` on two object columns: a null on either
\* side compares unequal, null with null included.
SeriesEq(a, b) == a # None /\ b # None /\ a = b

\* _augment_results: df["correct"] = df["response"] == df[config.answer_column]
AugmentResults(rows, cfg) ==
    [i \in 1..Len(rows) |->
        [row           |-> rows[i].row,
         response      |-> rows[i].response,
         result_status |-> rows[i].result_status,
         batch_id      |-> rows[i].batch_id,
         correct       |-> SeriesEq(rows[i].response, rows[i].row[cfg.answer_column])]]

Augment ==
    /\ pc = "returned" /\ entry = "main"
    /\ df_results' = AugmentResults(df_results, config)
    /\ pc' = "augmented"
    /\ UNCHANGED <<entry, dry_run, config, df, user_template, provider, requests,
                   job, content, result_map, responses, result_file, config_copy,
                   err>>
    /\ UNCHANGED <<raw, printed, varsNotMain>>

\* output_path.parent.mkdir(...); df_results.to_parquet(output_path). A write
\* that fails leaves no file or a file that is not the whole table.
SaveResults ==
    /\ pc = "augmented"
    /\ \/ /\ result_file' = "written"
          /\ pc' = "saved" /\ err' = err
       \/ /\ result_file' \in {"absent", "partial"}
          /\ Raise("OSError:to_parquet")
    /\ UNCHANGED <<entry, dry_run, config, df, user_template, provider, requests,
                   job, content, result_map, df_results, responses, config_copy>>
    /\ UNCHANGED <<raw, printed, varsNotMain>>

\* shutil.copy2(args.config, config_copy)
CopyConfig ==
    /\ pc = "saved"
    /\ \/ /\ config_copy' = "written"
          /\ pc' = "copied" /\ err' = err
       \/ /\ config_copy' = config_copy
          /\ Raise("OSError:copy2")
    /\ UNCHANGED <<entry, dry_run, config, df, user_template, provider, requests,
                   job, content, result_map, df_results, responses, result_file>>
    /\ UNCHANGED <<raw, printed, varsNotMain>>

\* _log_summary(df_results, config), and main returns.
LogSummary ==
    /\ pc = "copied"
    /\ pc' = "done"
    /\ UNCHANGED <<entry, dry_run, config, df, user_template, provider, requests,
                   job, content, result_map, df_results, responses, result_file,
                   config_copy, err>>
    /\ UNCHANGED <<raw, printed, varsNotMain>>

\* ------------------------------------------------- the sequential loops

Runners == {"query_gemini", "query_claude", "GeminiProvider"}
Scripts == {"query_gemini", "query_claude"}

\* CHECKPOINT_EVERY of both scripts.
CHECKPOINT_EVERY == 50

\* DEFAULT_RPM of llm/gemini.py.
DEFAULT_RPM == 15

\* RPM_LIMIT, the default of --rpm, of each script.
RPM_LIMIT(r) == IF r = "query_claude" THEN 50 ELSE 15

\* The values of --rpm considered: one call a minute, and each script's default.
RpmArgs == {1, RPM_LIMIT("query_gemini"), RPM_LIMIT("query_claude")}

\* Time is counted in ticks of 0.2 s: the 60.0 of min_interval is 300 ticks.
TicksPerMinute == 300

\* A pause cut down to whole seconds.
SleepWholeSeconds(elapsed, min_interval) ==
    IF elapsed < min_interval
    THEN ((min_interval - elapsed) \div (TicksPerMinute \div 60)) * (TicksPerMinute \div 60)
    ELSE 0

\* min_interval = 60.0 / args.rpm
MinInterval(r) == TicksPerMinute \div r

\* if elapsed < min_interval: time.sleep(min_interval - elapsed)
Sleep(elapsed, min_interval) ==
    IF elapsed < min_interval THEN min_interval - elapsed ELSE 0

\* The latencies of a call considered: shorter than the interval, equal to
\* it, longer.
Latencies(min_interval) == {min_interval - 1, min_interval, min_interval + 1}

\* The largest number of rows of the input file of a sequential run.
MaxN == 3

\* The id column of the input file: one id per question.
InputIds == [i \in 1..MaxN |-> "q" \o ToString(i)]

\* What query_gemini / query_claude return: the answer text, possibly empty.
ResponseTexts == {"", "A"}

\* The exceptions a call raises, by their message.
Exceptions == {"timeout"}

\* A raising call that leaves the row blank.
ErrorMarkerBlank(e) == ""

\* f"ERROR: {e}"
ErrorMarker(e) == "ERROR: " \o e

NoFile == [exists |-> FALSE, rows |-> <<>>]
NoTime == -1
NoCall == [since |-> NoTime, elapsed |-> NoTime, raised |-> FALSE]
NoGap == [ticks |-> NoTime, elapsed |-> NoTime, raised |-> FALSE]

\* An artifact left at the output path by a run over another input.
ForeignFile ==
    [exists |-> TRUE,
     rows   |-> <<[id |-> "zz", response |-> "A"], [id |-> "q1", response |-> ""]>>]

\* The rows save_checkpoint writes: id and response of every row of df.
CheckpointRows(row_ids, resps) ==
    [k \in 1..Len(row_ids) |-> [id |-> row_ids[k], response |-> resps[k]]]

\* A test that takes an error marker for a row still to be queried.
IsDoneUnlessError(rows, row_id) ==
    \E k \in 1..Len(rows) :
        /\ rows[k].id = row_id
        /\ \A m \in (k + 1)..Len(rows) : rows[m].id # row_id
        /\ rows[k].response # ""
        /\ rows[k].response \notin {ErrorMarker(e) : e \in Exceptions}

\* row_id in done_map and done_map[row_id], where
\* done_map = dict(zip(prev["id"], prev["response"])): the last row of an id counts.
IsDone(rows, row_id) ==
    \E k \in 1..Len(rows) :
        /\ rows[k].id = row_id
        /\ \A m \in (k + 1)..Len(rows) : rows[m].id # row_id
        /\ rows[k].response # ""

\* done_map[row_id]
DoneResponse(rows, row_id) ==
    LET k == CHOOSE k \in 1..Len(rows) :
                 /\ rows[k].id = row_id
                 /\ \A m \in (k + 1)..Len(rows) : rows[m].id # row_id
    IN  rows[k].response

\* A resume block that restores answers only, so that rows holding an error
\* marker are queried again.
RestoreAnswersOnly(rows, row_ids) ==
    [k \in 1..Len(row_ids) |->
        IF IsDone(rows, row_ids[k])
              /\ DoneResponse(rows, row_ids[k]) \notin {ErrorMarker(e) : e \in Exceptions}
        THEN DoneResponse(rows, row_ids[k]) ELSE ""]

\* A resume block that restores nothing.
RestoreNothing(rows, row_ids) == [k \in 1..Len(row_ids) |-> ""]

\* The list `responses` after the resume block.
Restore(rows, row_ids) ==
    [k \in 1..Len(row_ids) |->
        IF IsDone(rows, row_ids[k]) THEN DoneResponse(rows, row_ids[k]) ELSE ""]

\* sum(1 for r in responses if r)
CountDone(resps) == Cardinality({k \in 1..Len(resps) : resps[k] # ""})

SeqInit ==
    /\ spc = "idle"
    /\ runner = ""
    /\ rpm = 0
    /\ ids = <<>>
    /\ out_file \in {NoFile, ForeignFile}
    /\ prev = <<>>
    /\ seq_responses = <<>>
    /\ idx = 0
    /\ completed = 0
    /\ errors = 0
    /\ calls = <<>>
    /\ last_call = NoCall
    /\ gap = NoGap

\* main of a script from its start to the query loop; GeminiProvider.run from
\* its start to its loop.
StartRun ==
    /\ spc = "idle"
    /\ \E r \in Runners, n \in 1..MaxN :
        \E m \in (IF r \in Scripts THEN {1, RPM_LIMIT(r)} ELSE {DEFAULT_RPM}) :
            LET row_ids  == SubSeq(InputIds, 1, n)
                read     == IF r \in Scripts /\ out_file.exists THEN out_file.rows ELSE <<>>
                restored == IF r \in Scripts
                            THEN IF out_file.exists THEN Restore(read, row_ids)
                                 ELSE [k \in 1..n |-> ""]
                            ELSE <<>>
            IN  /\ runner' = r
                /\ rpm' = m
                /\ ids' = row_ids
                /\ prev' = read
                /\ seq_responses' = restored
                /\ completed' = CountDone(restored)
    /\ errors' = 0
    /\ idx' = 1
    /\ calls' = <<>>
    /\ last_call' = NoCall
    /\ gap' = NoGap
    /\ spc' = "loop"
    /\ UNCHANGED <<out_file, varsNotSeq>>

\* One iteration of a script's loop for a row already done: continue.
SkipRow ==
    /\ spc = "loop" /\ runner \in Scripts
    /\ idx <= Len(ids)
    /\ seq_responses[idx] # ""
    /\ idx' = idx + 1
    /\ UNCHANGED <<spc, runner, rpm, ids, out_file, prev, seq_responses, completed,
                   errors, calls, last_call, gap, varsNotSeq>>

\* A loop that leaves at the first raising call, as a `break` in the except
\* clause would.
AfterCallBreaks(i, raised, n) == IF raised THEN n + 1 ELSE i + 1

\* The row the for loop visits after the call for row i: the except clause
\* records the failure and falls through, so the loop goes on to row i + 1
\* whether the call raised or not.
AfterCall(i, raised, n) == i + 1

\* One iteration of the loop that calls the service: the call and its
\* outcome, the rate limit and, in a script, the checkpoint. `late` is the
\* time the iteration takes beyond the call and the pause asked for: sleep
\* returning late, the checkpoint's write.
QueryRow ==
    /\ spc = "loop"
    /\ idx <= Len(ids)
    /\ runner \in Scripts => seq_responses[idx] = ""
    /\ \E raised \in BOOLEAN, text \in ResponseTexts, e \in Exceptions,
          elapsed \in Latencies(MinInterval(rpm)), late \in 0..1 :
        LET value  == IF raised
                      THEN IF runner \in Scripts THEN ErrorMarker(e) ELSE None
                      ELSE text
            resps  == IF runner \in Scripts
                      THEN [seq_responses EXCEPT ![idx] = value]
                      ELSE Append(seq_responses, value)
            done   == IF raised THEN completed ELSE completed + 1
            pause  == Sleep(elapsed, MinInterval(rpm))
            saves  == runner \in Scripts /\ done % CHECKPOINT_EVERY = 0
        IN  /\ seq_responses' = resps
            /\ completed' = done
            /\ errors' = IF raised THEN errors + 1 ELSE errors
            /\ out_file' = IF saves
                           THEN [exists |-> TRUE, rows |-> CheckpointRows(ids, resps)]
                           ELSE out_file
            /\ last_call' = [since   |-> elapsed + pause + late,
                             elapsed |-> elapsed,
                             raised  |-> raised]
            /\ gap' = IF last_call = NoCall THEN NoGap
                      ELSE [ticks   |-> last_call.since,
                            elapsed |-> last_call.elapsed,
                            raised  |-> last_call.raised]
            /\ idx' = AfterCall(idx, raised, Len(ids))
    /\ calls' = Append(calls, ids[idx])
    /\ UNCHANGED <<spc, runner, rpm, ids, prev, varsNotSeq>>

\* The final save of a script, after its loop.
FinalSave ==
    /\ spc = "loop" /\ runner \in Scripts
    /\ idx > Len(ids)
    /\ out_file' = [exists |-> TRUE, rows |-> CheckpointRows(ids, seq_responses)]
    /\ spc' = "finished"
    /\ UNCHANGED <<runner, rpm, ids, prev, seq_responses, idx, completed, errors,
                   calls, last_call, gap, varsNotSeq>>

\* GeminiProvider.run assembles its DataFrame and returns.
ProviderReturn ==
    /\ spc = "loop" /\ runner = "GeminiProvider"
    /\ idx > Len(ids)
    /\ spc' = "finished"
    /\ UNCHANGED <<runner, rpm, ids, out_file, prev, seq_responses, idx, completed,
                   errors, calls, last_call, gap, varsNotSeq>>

\* The state of a process that is not running.
Stopped ==
    /\ spc' = "idle"
    /\ runner' = ""
    /\ rpm' = 0
    /\ ids' = <<>>
    /\ prev' = <<>>
    /\ seq_responses' = <<>>
    /\ idx' = 0
    /\ completed' = 0
    /\ errors' = 0
    /\ calls' = <<>>
    /\ last_call' = NoCall
    /\ gap' = NoGap

\* The process ends after the run.
Exit ==
    /\ spc = "finished"
    /\ Stopped
    /\ UNCHANGED <<out_file, varsNotSeq>>

\* The process is interrupted or killed between two iterations.
Crash ==
    /\ spc = "loop"
    /\ Stopped
    /\ UNCHANGED <<out_file, varsNotSeq>>

\* ------------------------------------------------- the provider registry

\* The names a caller may resolve or register, in sorted order.
NameOrder == <<"claude", "gemini", "gpt5", "llama">>

\* The class each provider module registers, by the name it registers it under.
ModuleClass ==
    [n \in ProviderClasses |->
        IF n = "claude" THEN "ClaudeProvider"
        ELSE IF n = "gpt5" THEN "GPT5Provider" ELSE "GeminiProvider"]

\* A class registered by code outside the package.
StubProvider == "StubProvider"

\* The classes whose __init__ raises RuntimeError without their API key, and
\* the provider whose key that is.
KeyOf ==
    [c \in {"GPT5Provider", "GeminiProvider"} |->
        IF c = "GPT5Provider" THEN "gpt5" ELSE "gemini"]

\* The largest number of provider objects constructed.
MaxInstances == 2

\* _PROVIDERS after `import llm`.
ImportedRegistry == [n \in Registry |-> ModuleClass[n]]

\* sorted(_PROVIDERS)
SortedNames(registry) == SelectSeq(NameOrder, LAMBDA n : n \in DOMAIN registry)

\* An error message that names no provider.
AvailableOmitted(registry) == <<>>

\* The names the KeyError message of get_provider lists after "Available: ".
Available(registry) == SortedNames(registry)

\* _PROVIDERS[name] = cls
Registered(registry, name, cls) ==
    [n \in DOMAIN registry \cup {name} |-> IF n = name THEN cls ELSE registry[n]]

NoOutcome == [kind |-> "none", name |-> "", available |-> <<>>, obj |-> 0]

RegInit ==
    /\ PROVIDERS = ImportedRegistry
    /\ api_keys \in SUBSET {"gpt5", "gemini"}
    /\ instances = <<>>
    /\ outcome = NoOutcome

\* import llm.gpt5: its decorator registers GPT5Provider under "gpt5".
ImportGPT5 ==
    /\ PROVIDERS' = Registered(PROVIDERS, "gpt5", ModuleClass["gpt5"])
    /\ UNCHANGED <<api_keys, instances, outcome, varsNotReg>>

\* register_provider(name)(cls) by code outside the package.
RegisterProvider ==
    /\ \E name \in {"claude", "llama"} :
        PROVIDERS' = Registered(PROVIDERS, name, StubProvider)
    /\ UNCHANGED <<api_keys, instances, outcome, varsNotReg>>

\* get_provider(name).
ResolveProvider ==
    \E name \in SeqToSet(NameOrder) :
        IF name \notin DOMAIN PROVIDERS
        THEN /\ outcome' = [kind |-> "KeyError", name |-> name,
                            available |-> Available(PROVIDERS), obj |-> 0]
             /\ UNCHANGED <<PROVIDERS, api_keys, instances, varsNotReg>>
        ELSE LET cls == PROVIDERS[name] IN
             IF cls \in DOMAIN KeyOf /\ KeyOf[cls] \notin api_keys
             THEN /\ outcome' = [kind |-> "RuntimeError", name |-> name,
                                 available |-> <<>>, obj |-> 0]
                  /\ UNCHANGED <<PROVIDERS, api_keys, instances, varsNotReg>>
             ELSE /\ Len(instances) < MaxInstances
                  /\ instances' = Append(instances, cls)
                  /\ outcome' = [kind |-> "instance", name |-> name,
                                 available |-> <<>>, obj |-> Len(instances) + 1]
                  /\ UNCHANGED <<PROVIDERS, api_keys, varsNotReg>>

\* ---------------------------------------- the query loop by its counts

\* The largest number of rows of a long sequential run, and of rows restored
\* from the checkpoint at its start.
MaxItems == 51
MaxResumed == 2

CadInit ==
    /\ cad_pc = "idle"
    /\ cad_len = 0
    /\ cad_i = 0
    /\ cad_completed = 0
    /\ cad_errors = 0
    /\ cad_unsaved = 0

\* main of a script up to the query loop: start_idx rows are restored from
\* the checkpoint (taken to be the first rows), completed = start_idx.
CadStart ==
    /\ cad_pc = "idle"
    /\ \E n \in 1..MaxItems, start_idx \in 0..MaxResumed :
        /\ start_idx <= n
        /\ cad_len' = n
        /\ cad_i' = start_idx
        /\ cad_completed' = start_idx
    /\ cad_errors' = 0
    /\ cad_unsaved' = 0
    /\ cad_pc' = "loop"
    /\ UNCHANGED varsNotCad

\* One iteration of the loop that calls the service: completed or errors is
\* incremented, and the artifact is written when completed % CHECKPOINT_EVERY == 0.
CadQuery ==
    /\ cad_pc = "loop" /\ cad_i < cad_len
    /\ \E raised \in BOOLEAN :
        LET done == IF raised THEN cad_completed ELSE cad_completed + 1 IN
        /\ cad_completed' = done
        /\ cad_errors' = IF raised THEN cad_errors + 1 ELSE cad_errors
        /\ cad_unsaved' = IF done % CHECKPOINT_EVERY = 0 THEN 0 ELSE cad_unsaved + 1
    /\ cad_i' = cad_i + 1
    /\ UNCHANGED <<cad_pc, cad_len, varsNotCad>>

\* The final save after the loop.
CadFinalSave ==
    /\ cad_pc = "loop" /\ cad_i = cad_len
    /\ cad_unsaved' = 0
    /\ cad_pc' = "finished"
    /\ UNCHANGED <<cad_len, cad_i, cad_completed, cad_errors, varsNotCad>>

\* The process is interrupted or killed between two iterations.
CadCrash ==
    /\ cad_pc = "loop"
    /\ cad_pc' = "crashed"
    /\ UNCHANGED <<cad_len, cad_i, cad_completed, cad_errors, cad_unsaved, varsNotCad>>

\* ------------------------------------- the composite identifier, by dtype

MaxFrameRows == 2

Dtypes == {"object", "int64", "float64"}
FrameColumns == {"id", "item", "ans"}

\* The dtypes a DataFrame read from the data file can have: any for the
\* identifier fields, text or integer for the answer field.
FrameDtypes == {d \in [FrameColumns -> Dtypes] : d["ans"] # "float64"}

\* The values of a column: a float is held in tenths (15 is 1.5), an object
\* cell n is the text "q" followed by n.
Values(dtype) == IF dtype = "float64" THEN {15, 25} ELSE {1, 2}

FrameRows(d) ==
    {[id |-> a, item |-> b, ans |-> 1] : a \in Values(d["id"]), b \in Values(d["item"])}

Frames ==
    UNION {{[dtypes |-> d, rows |-> r] :
               r \in UNION {[1..n -> FrameRows(d)] : n \in 1..MaxFrameRows}} :
           d \in FrameDtypes}

NoFrame == [dtypes |-> [c \in FrameColumns |-> "object"], rows |-> <<>>]

\* str(v) of a scalar of a dtype: the text itself, the decimal digits of an
\* integer, the digits of a float with its fractional part.
ScalarStr(s) ==
    IF s.dtype = "object" THEN "q" \o ToString(s.v)
    ELSE IF s.dtype = "int64" THEN ToString(s.v)
    ELSE ToString(s.v \div 10) \o "." \o ToString(s.v % 10)

\* df[col] at row i.
FrameCell(f, i, col) == [dtype |-> f.dtypes[col], v |-> f.rows[i][col]]

\* The dtype of the Series df.iterrows() yields for a row: the common dtype of
\* all the columns of df.
RowDtype(dtypes) ==
    IF \E c \in FrameColumns : dtypes[c] = "object" THEN "object"
    ELSE IF \E c \in FrameColumns : dtypes[c] = "float64" THEN "float64"
    ELSE "int64"

\* row[col] for the row i that df.iterrows() yields: the cell, cast to the
\* row's dtype (an integer of an all-numeric frame with a float column
\* becomes a float).
IterrowsCell(f, i, col) ==
    LET s == FrameCell(f, i, col)
    IN  IF RowDtype(f.dtypes) = "float64" /\ s.dtype = "int64"
        THEN [dtype |-> "float64", v |-> s.v * 10]
        ELSE s

\* _make_custom_id(row, config) for the row i of df.iterrows().
MakeCustomIdOfRow(f, i, id_columns) ==
    JoinSep([k \in 1..Len(id_columns) |-> ScalarStr(IterrowsCell(f, i, id_columns[k]))])

\* df[id_columns].astype(str).agg("__".join, axis=1) at row i: every column
\* is converted with its own dtype.
CustomIdOfColumns(f, i, id_columns) ==
    JoinSep([k \in 1..Len(id_columns) |-> ScalarStr(FrameCell(f, i, id_columns[k]))])

IdInit ==
    /\ id_pc = "idle"
    /\ frame = NoFrame
    /\ key_columns = <<>>
    /\ built_ids = <<>>
    /\ merged_ids = <<>>
    /\ first_ids = <<>>
    /\ id_runs = 0

\* A run starts on a data file and a configuration.
IdLoad ==
    /\ id_pc = "idle"
    /\ \E f \in Frames, cols \in {<<"id">>, <<"id", "item">>} :
          frame' = f /\ key_columns' = cols
    /\ id_pc' = "loaded"
    /\ id_runs' = 1
    /\ UNCHANGED <<built_ids, merged_ids, first_ids, varsNotId>>

\* _build_batch_requests: one custom_id per row of df.iterrows().
IdBuild ==
    /\ id_pc = "loaded"
    /\ built_ids' = [i \in 1..Len(frame.rows) |-> MakeCustomIdOfRow(frame, i, key_columns)]
    /\ id_pc' = "built"
    /\ UNCHANGED <<frame, key_columns, merged_ids, first_ids, id_runs, varsNotId>>

\* _merge_results: the _custom_id column.
IdMerge ==
    /\ id_pc = "built"
    /\ merged_ids' = [i \in 1..Len(frame.rows) |-> CustomIdOfColumns(frame, i, key_columns)]
    /\ id_pc' = "merged"
    /\ UNCHANGED <<frame, key_columns, built_ids, first_ids, id_runs, varsNotId>>

\* A second run on the same data file and configuration.
IdRunAgain ==
    /\ id_pc = "merged" /\ id_runs = 1
    /\ first_ids' = built_ids
    /\ built_ids' = <<>>
    /\ merged_ids' = <<>>
    /\ id_runs' = 2
    /\ id_pc' = "loaded"
    /\ UNCHANGED <<frame, key_columns, varsNotId>>

\* ------------------------------------------------------------------- Spec

vars == <<varsMain, varsSeq, varsReg, varsCad, varsId>>

\* The parts of the program that a specification leaves at rest.
RegRest == RegInit /\ api_keys = {}
SeqRest == SeqInit /\ out_file = NoFile
MainRest == MainInit /\ entry = "main"

\* A run of the batch and provider paths: no sequential loop runs.
Init == MainInit /\ SeqRest /\ RegRest /\ CadInit /\ IdInit

Next ==
    \/ ReadYaml \/ LoadConfig \/ LoadData \/ LoadPrompts \/ ValidateData \/ DryRun
    \/ GetProvider \/ CallRun
    \/ Build \/ SubmitClaude \/ SubmitGPT5 \/ JobEnds
    \/ PollClaude \/ PollGPT5 \/ PollSleep
    \/ RetrieveClaude \/ RetrieveGPT5 \/ Merge
    \/ GeminiCall \/ GeminiReturn
    \/ Augment \/ SaveResults \/ CopyConfig \/ LogSummary

Spec == Init /\ [][Next]_vars

\* Runs of the sequential loops, one after the other on the same output path.
InitSeq == MainRest /\ SeqInit /\ RegRest /\ CadInit /\ IdInit

NextSeq ==
    \/ StartRun \/ SkipRow \/ QueryRow \/ FinalSave \/ ProviderReturn \/ Exit \/ Crash

SpecSeq == InitSeq /\ [][NextSeq]_vars

\* Calls of get_provider in a process that has imported llm.
InitReg == MainRest /\ SeqRest /\ RegInit /\ CadInit /\ IdInit

NextReg == ImportGPT5 \/ RegisterProvider \/ ResolveProvider

SpecReg == InitReg /\ [][NextReg]_vars

\* One long run of a sequential script, by its counts.
InitCad == MainRest /\ SeqRest /\ RegRest /\ CadInit /\ IdInit

NextCad == CadStart \/ CadQuery \/ CadFinalSave \/ CadCrash

SpecCad == InitCad /\ [][NextCad]_vars

\* Runs that compute the composite identifiers of a typed DataFrame.
InitId == MainRest /\ SeqRest /\ RegRest /\ CadInit /\ IdInit

NextId == IdLoad \/ IdBuild \/ IdMerge \/ IdRunAgain

SpecId == InitId /\ [][NextId]_vars

\* A provider's run up to the end of its poll loop. The thread of the run
\* keeps taking its steps (each fetch and each sleep of the loop happens), and
\* the provider is assumed to end the job at some time.
InitPoll == MainInit /\ entry = "provider" /\ SeqRest /\ RegRest /\ CadInit /\ IdInit

NextPoll ==
    \/ CallRun \/ Build \/ SubmitClaude \/ SubmitGPT5 \/ JobEnds
    \/ PollClaude \/ PollGPT5 \/ PollSleep

SpecPoll ==
    /\ InitPoll /\ [][NextPoll]_vars
    /\ WF_vars(PollClaude) /\ WF_vars(PollGPT5) /\ WF_vars(PollSleep)
    /\ WF_vars(JobEnds)

\* ================================================================ claims

\* run has returned its DataFrame.
AfterRun == {"returned", "augmented", "saved", "copied", "done"}
Reconciled == provider \in BatchProviders /\ pc \in AfterRun

\* The composite identifier of input row i and of output row j.
InId(i) == CustomIdColumn(df, config.id_columns, i)
OutId(j) == MakeCustomId(df_results[j].row, config.id_columns)
InIds == {InId(i) : i \in 1..Len(df)}

\* C1: the batch reconciler returns exactly |D| rows, one per input row and in
\* its place; every identifier occurs in the output as often as in D (once,
\* when the identifiers of D are distinct), and an identifier that is only in
\* the result map occurs in no output row.
C1_MergeCoversDataset ==
    Reconciled =>
        LET in_ids  == [i \in 1..Len(df) |-> InId(i)]
            out_ids == [j \in 1..Len(df_results) |-> OutId(j)]
            in_set  == {in_ids[i] : i \in 1..Len(df)}
        IN  /\ Len(df_results) = Len(df)
            /\ \A i \in 1..Len(df) : df_results[i].row = df[i]
            /\ \A c \in in_set \cup DOMAIN result_map :
                   Cardinality({j \in 1..Len(df_results) : out_ids[j] = c})
                       = Cardinality({i \in 1..Len(df) : in_ids[i] = c})
            /\ \A c \in DOMAIN result_map \ in_set :
                   \A j \in 1..Len(df_results) : out_ids[j] # c

\* C1 witness: a reconciled dataset of three rows, whose result map omits an
\* identifier of the dataset and holds one that is not in it.
C1_Witness ==
    /\ Reconciled /\ Len(df) = 3
    /\ \E c \in InIds : c \notin DOMAIN result_map
    /\ StrayId \in DOMAIN result_map

\* C2: after reconciliation a row whose identifier is absent from the result
\* map has result_status "missing" and a null response, and no row whose
\* identifier is in the result map has result_status "missing".
C2_MissingIffAbsent ==
    Reconciled =>
        \A i \in 1..Len(df_results) :
            /\ InId(i) \notin DOMAIN result_map =>
                   /\ df_results[i].result_status = "missing"
                   /\ df_results[i].response = None
            /\ InId(i) \in DOMAIN result_map =>
                   df_results[i].result_status # "missing"

\* C2 witness: a reconciled dataset with a row whose identifier is absent
\* from the result map and a row whose identifier is in it.
C2_Witness ==
    /\ Reconciled
    /\ \E i \in 1..Len(df) : InId(i) \notin DOMAIN result_map
    /\ \E i \in 1..Len(df) : InId(i) \in DOMAIN result_map

\* The identifiers of the dataset that have a non-empty response in the
\* checkpoint artifact the run started with.
AnsweredAtStart ==
    {id \in SeqToSet(ids) :
        \E k \in 1..Len(prev) : prev[k].id = id /\ prev[k].response # ""}

\* C3: a run of a sequential script that starts with a checkpoint artifact in
\* which N identifiers of the dataset D have a non-empty response issues at
\* most |D| - N remote calls, none of them for an identifier answered in the
\* checkpoint.
C3_ResumeSkipsAnswered ==
    (runner \in Scripts /\ spc \in {"loop", "finished"}) =>
        /\ Len(calls) <= Len(ids) - Cardinality(AnsweredAtStart)
        /\ \A k \in 1..Len(calls) : calls[k] \notin AnsweredAtStart

\* C3 witness: a script has finished a run over three rows that started with
\* a checkpoint holding an answer for one and an error marker for another; it
\* issued its one call.
C3_Witness ==
    /\ runner \in Scripts /\ spc = "finished"
    /\ Len(ids) = 3 /\ Cardinality(AnsweredAtStart) = 2
    /\ \E k \in 1..Len(prev) :
           prev[k].id \in SeqToSet(ids) /\ prev[k].response = ErrorMarker("timeout")
    /\ Len(calls) = 1

\* C4: the starts of two consecutive remote calls of one run are at least
\* 60/rpm seconds apart (ticks * rpm >= ticks per minute), whatever the
\* latency of the first call and whether it returned or raised, for rpm in
\* {1, 15, 50}; the next iteration starts no earlier either.
C4_CallsSpacedByInterval ==
    spc \in {"loop", "finished"} =>
        /\ rpm \in RpmArgs
        /\ gap # NoGap => gap.ticks * rpm >= TicksPerMinute
        /\ last_call # NoCall => last_call.since * rpm >= TicksPerMinute

\* C4 witness: at 50 requests per minute, a call that raised after more than
\* the interval was followed by the next call.
C4_Witness ==
    /\ spc = "loop" /\ rpm = 50
    /\ gap # NoGap /\ gap.raised /\ gap.elapsed > MinInterval(rpm)
    /\ Len(calls) = 2

\* The entries of `content` that decide their identifier's result: no later
\* entry carries the same custom_id.
Deciding == {k \in 1..Len(content) :
                \A m \in (k + 1)..Len(content) : content[m].custom_id # content[k].custom_id}

\* The provider's output for this item is present, complete, and is not an
\* object with the single field `answer` holding a label.
ClaudeMalformed(e) ==
    e.type = "succeeded" /\ e.has_content /\ ~e.truncated /\ ~SingleAnswerObject(e.text)
GPT5Malformed(e) ==
    /\ StatusCode(e) = 200 /\ ~RaisesBeforeContent(e) /\ e.finish_reason # "length"
    /\ ~Falsy(e.text) /\ ~SingleAnswerObject(e.text)
GeminiMalformed(o) == ~o.raised /\ ~Falsy(o.text) /\ ~SingleAnswerObject(o.text)

ParseError == Result(None, "parse_error")

\* C5: every item whose provider output is present but fails validation
\* against the output-shape constraint is recorded with result_status
\* parse_error and a null response, by every provider.
C5_MalformedIsParseError ==
    /\ (provider = "claude" /\ pc \in {"merge"} \cup AfterRun) =>
           \A k \in Deciding :
               ClaudeMalformed(content[k]) => result_map[content[k].custom_id] = ParseError
    /\ (provider = "gpt5" /\ pc \in {"merge"} \cup AfterRun) =>
           \A k \in Deciding :
               GPT5Malformed(content[k]) => result_map[content[k].custom_id] = ParseError
    /\ provider = "gemini" =>
           \A k \in 1..Len(responses) :
               GeminiMalformed(content[k]) => responses[k] = ParseError

\* The end-to-end example: three rows q1, q2, q3 keyed by qid, a job that ended
\* normally, a valid answer "A" for q1, a truncated output for q2, nothing for q3.
Truncated(e) == IF provider = "claude" THEN e.truncated ELSE e.finish_reason = "length"
ValidAnswerA(e) ==
    IF provider = "claude"
    THEN e.type = "succeeded" /\ e.has_content /\ e.text = TxtValidA /\ ~e.truncated
    ELSE StatusCode(e) = 200 /\ e.has_choices /\ e.finish_reason = "stop" /\ e.text = TxtValidA
ExampleScenario ==
    /\ provider \in BatchProviders /\ pc = "returned"
    /\ df = Prefix(3) /\ config.id_columns = <<"qid">>
    /\ job.fate = "completed"
    /\ Len(content) = 2
    /\ content[1].custom_id = "q1" /\ ValidAnswerA(content[1])
    /\ content[2].custom_id = "q2" /\ Truncated(content[2])

\* C6: in the end-to-end example the reconciled rows are q1 -> (A, succeeded),
\* q2 -> (None, token_limit), q3 -> (None, missing), for every batch provider.
C6_EndToEndExample ==
    ExampleScenario =>
        /\ Len(df_results) = 3
        /\ df_results[1].response = "A"  /\ df_results[1].result_status = "succeeded"
        /\ df_results[2].response = None /\ df_results[2].result_status = "token_limit"
        /\ df_results[3].response = None /\ df_results[3].result_status = "missing"

\* The run has not retrieved or reconciled anything.
NothingRetrieved == content = <<>> /\ result_map = EmptyMap /\ df_results = <<>>

\* The job ended otherwise than by normal completion.
JobFailed == job.fate \in {"failed", "expired", "canceled"}

FailureStatuses ==
    {"parse_error", "token_limit", "empty_content", "errored", "expired",
     "canceled", "missing"}

\* C8: for a batch job that ended normally, whatever per-item results it
\* returns, retrieval and reconciliation do not raise, and every item that is
\* not a valid answer is recorded with a failure status.
C8_ItemFailuresNeverFatal ==
    (provider \in BatchProviders /\ job.fate = "completed") =>
        /\ pc # "aborted"
        /\ pc \in AfterRun =>
               \A i \in 1..Len(df_results) :
                   df_results[i].result_status = "succeeded"
                       \/ df_results[i].result_status \in FailureStatuses

NothingWritten == result_file = "absent" /\ config_copy = "absent"

\* C9 as stated: every run of main ends either with the result artifact
\* written or aborted with nothing written, and never aborts after writing
\* part of its output.
C9_ArtifactOrCleanAbort ==
    (entry = "main" /\ pc \in {"done", "aborted"}) =>
        /\ result_file = "written" \/ (pc = "aborted" /\ NothingWritten)
        /\ pc = "aborted" => NothingWritten

\* The exceptions of the two save steps.
SaveErrors == {"OSError:to_parquet", "OSError:copy2"}

\* C9 amended: a run of main ends in one of three ways: a dry run returns
\* with nothing written; a run that is not a dry run returns with the result
\* artifact and the configuration copy written; or the run aborts with an
\* error. An abort raised before the save steps (configuration, data, prompts,
\* validation, provider lookup, the provider's run) leaves nothing written;
\* only a failure of a save step itself aborts the run after part of the
\* output: a failed artifact write leaves no configuration copy, a failed
\* configuration copy leaves the complete artifact without its copy.
C9_ThreeEndings ==
    entry = "main" =>
        /\ pc = "done" =>
               \/ dry_run /\ NothingWritten /\ provider = ""
               \/ ~dry_run /\ result_file = "written" /\ config_copy = "written"
        /\ (pc = "aborted" /\ err \notin SaveErrors) => NothingWritten
        /\ (pc = "aborted" /\ err = "OSError:to_parquet") =>
               result_file \in {"absent", "partial"} /\ config_copy = "absent"
        /\ (pc = "aborted" /\ err = "OSError:copy2") =>
               result_file = "written" /\ config_copy = "absent"
        /\ pc \notin {"copied", "done", "aborted"} => config_copy = "absent"

\* C9 witness: a run of main aborted by a submission failure, nothing written.
C9_Witness ==
    /\ entry = "main" /\ pc = "aborted" /\ err = "APIError"
    /\ job.submits = 1 /\ NothingWritten

\* The provider has been handed the run, or has built or sent something.
ProviderStarted ==
    \/ provider # "" \/ requests # <<>> \/ job.submits > 0 \/ job.exists
    \/ content # <<>> \/ responses # <<>>

\* C10: in a run of main the provider builds, submits or issues a request
\* only when the configuration is sound: the identifier column list is not
\* empty, every identifier column, the answer column and every placeholder of
\* the user template is a column of the dataset, and the provider name is
\* registered. An abort on a configuration error has started no provider.
C10_ConfigErrorsBeforeRequests ==
    entry = "main" =>
        /\ ProviderStarted =>
               /\ config.id_columns # <<>>
               /\ \A c \in SeqToSet(config.id_columns) : c \in DataColumns
               /\ config.answer_column \in DataColumns
               /\ \A p \in SeqToSet(user_template) : p \in DataColumns
               /\ config.provider \in Registry
        /\ (pc = "aborted" /\ err \in {"ValidationError", "ValueError", "KeyError"}) =>
               ~ProviderStarted

\* C10 witness: validation has raised on a template placeholder that is no
\* column of the dataset, and no provider was started.
C10_Witness ==
    /\ entry = "main" /\ pc = "aborted" /\ err = "ValueError"
    /\ "nope" \in SeqToSet(user_template)
    /\ ~ProviderStarted

\* C11: loading the configuration rejects, with a validation error, every
\* document that holds a key unknown to the schema and every document that
\* omits a required field: from_yaml never returns an LLMConfig for one.
C11_RejectsUnknownAndMissing ==
    [][(pc = "from_yaml" /\ (raw.unknown \/ raw.omits # ""))
          => (pc' = "aborted" /\ err' = "ValidationError")]_vars

C13_DryRunNoSideEffects ==
    (entry = "main" /\ dry_run) =>
        /\ ~ProviderStarted
        /\ NothingWritten
        /\ df_results = <<>> /\ result_map = EmptyMap
        /\ pc \in {"from_yaml", "load_data", "load_prompts", "validate", "dispatch",
                   "done", "aborted"}
        /\ Len(printed) <= N_SAMPLES
        /\ pc = "done" =>
               /\ Len(printed) = (IF Len(df) < N_SAMPLES THEN Len(df) ELSE N_SAMPLES)
               /\ \A k \in 1..Len(printed) : printed[k] = df[k].qid
        /\ pc # "done" => printed = <<>>

\* C13 witness: a dry run over a dataset of more rows than it samples has
\* returned.
C13_Witness ==
    /\ entry = "main" /\ dry_run /\ pc = "done"
    /\ Len(df) > N_SAMPLES /\ Len(printed) = N_SAMPLES

\* C14: wherever the process may crash, fewer than CHECKPOINT_EVERY (50) of
\* the rows called in this run are missing from the persisted artifact, and
\* the artifact holds every row once the loop has finished.
C14_CrashLosesLessThanCadence ==
    /\ cad_pc \in {"loop", "crashed"} => cad_unsaved < CHECKPOINT_EVERY
    /\ cad_pc = "finished" => cad_unsaved = 0

\* The error markers, and the rows of this run's calls that carry one.
Markers == {ErrorMarker(e) : e \in Exceptions}
MarkedCalls ==
    {k \in 1..Len(ids) : ids[k] \in SeqToSet(calls) /\ seq_responses[k] \in Markers}

\* C15: in a sequential script a call that raises leaves a non-empty error
\* marker, distinct from every answer, as the row's response: the rows called
\* in this run that carry a marker are as many as the calls that raised, and
\* none of them counts as completed. A row that carried a marker in the
\* checkpoint the run started from keeps it and is not called again.
C15_ErrorMarkerKept ==
    /\ \A m \in Markers : m # "" /\ m \notin Labels /\ m \notin ResponseTexts
    /\ (runner \in Scripts /\ spc \in {"loop", "finished"}) =>
           /\ Cardinality(MarkedCalls) = errors
           /\ completed = CountDone(Restore(prev, ids)) + Len(calls) - errors
           /\ \A k \in 1..Len(ids) :
                  \A j \in 1..Len(prev) :
                      (prev[j].id = ids[k] /\ prev[j].response \in Markers) =>
                          /\ ids[k] \notin SeqToSet(calls)
                          /\ seq_responses[k] = prev[j].response

\* C15 witness: a script resumed from a checkpoint with an error marker for
\* the first row has called the second row, whose call raised too.
C15_Witness ==
    /\ runner \in Scripts /\ spc = "loop" /\ Len(ids) = 3
    /\ \E j \in 1..Len(prev) : prev[j].id = ids[1] /\ prev[j].response \in Markers
    /\ calls = <<ids[2]>> /\ errors = 1
    /\ seq_responses[2] \in Markers

\* C16: on the sequential path a raising call affects only its own item.  The
\* calls made so far are exactly the rows the loop has passed that were not
\* skipped as already done, in order and once each (rows after a failed call
\* included); a finished run has attempted every such row; and a row that was
\* not called still holds what the resume step restored for it.
NotSkipped(id) == runner \in Scripts => ~IsDone(prev, id)

Attempted(n) == SelectSeq(SubSeq(ids, 1, n), NotSkipped)

C16_ErrorAffectsOnlyItsItem ==
    spc \in {"loop", "finished"} =>
        /\ calls = Attempted(idx - 1)
        /\ spc = "finished" => idx = Len(ids) + 1 /\ calls = Attempted(Len(ids))
        /\ \A k \in 1..Len(calls) : \A l \in 1..Len(calls) :
              calls[k] = calls[l] => k = l
        /\ runner \in Scripts =>
              \A k \in 1..Len(ids) :
                  (\A c \in 1..Len(calls) : calls[c] # ids[k])
                      => seq_responses[k] = Restore(prev, ids)[k]
        /\ runner \notin Scripts => Len(seq_responses) = Len(calls)

\* A finished script run of three rows whose first call raised and whose two
\* later rows were then answered.
C16_Witness ==
    /\ spc = "finished" /\ runner \in Scripts
    /\ Len(ids) = MaxN /\ calls = ids
    /\ seq_responses[1] \in Markers
    /\ \A k \in 2..Len(ids) : seq_responses[k] = "A"

\* The outcome set, in the strings the providers write.
OutcomeSet ==
    {"succeeded", "parse_error", "token_limit", "empty_content", "errored",
     "expired", "canceled", "missing"}

\* C17: once a provider run has returned, the result table has the input rows,
\* one result_status each, and every status is a member of the outcome set:
\* succeeded, parse_error, token_limit, empty_content, errored, expired,
\* canceled or missing.
C17_StatusInOutcomeSet ==
    (pc \in AfterRun /\ provider # "") =>
        /\ Len(df_results) = Len(df)
        /\ \A i \in 1..Len(df_results) :
              /\ df_results[i].row = df[i]
              /\ df_results[i].result_status \in OutcomeSet
              /\ df_results[i].result_status # "succeeded"
                    => df_results[i].response = None

\* A reconciled batch run of three rows in which one row succeeded, one has a
\* status the provider reported for a failed item, and one has no result.
C17_Witness ==
    /\ Reconciled /\ Len(df_results) = MaxRows
    /\ \E i \in 1..Len(df_results) : df_results[i].result_status = "succeeded"
    /\ \E i \in 1..Len(df_results) : df_results[i].result_status = "missing"
    /\ \E i \in 1..Len(df_results) :
          df_results[i].result_status \notin {"succeeded", "missing"}

\* C18: for every row the identifier computed when the request is built
\* (_make_custom_id on the row of iterrows) is the same string as the one
\* computed for the row when results are reconciled (the astype(str) column of
\* _merge_results), and a second run with the same data and configuration
\* builds the same identifiers.
C18_SameIdentifierBothWays ==
    /\ id_pc = "merged" => merged_ids = built_ids
    /\ (id_runs = 2 /\ id_pc \in {"built", "merged"}) => built_ids = first_ids

\* C19: if two distinct dataset rows have the same composite identifier the
\* run ends with a configuration error: no batch run gets as far as holding
\* built requests of which two carry one identifier, and no reconciled table
\* has two rows that were given the result of one identifier.
C19_CollisionIsConfigError ==
    (provider \in BatchProviders
        /\ pc \in {"submit", "poll", "poll_sleep", "retrieve", "merge"} \cup AfterRun) =>
        \A i \in 1..Len(requests) : \A j \in 1..Len(requests) :
            requests[i] = requests[j] => i = j

\* The result table has its `correct` column.
Augmented == pc \in {"augmented", "saved", "copied", "done"} /\ provider # ""

\* C20: in the augmented result table `correct` is true for a row exactly when
\* its response is an answer equal to the value of the configured answer
\* column, and it is false for every row whose result_status is not
\* succeeded, rows whose answer value is null included.
C20_CorrectIffResponseEqualsAnswer ==
    Augmented =>
        \A i \in 1..Len(df_results) :
            LET r == df_results[i]
                answer == r.row[config.answer_column]
            IN  /\ r.correct <=> (r.response \in Labels /\ r.response = answer)
                /\ r.result_status # "succeeded" => ~r.correct
                /\ answer = None => ~r.correct

\* An augmented table with a correct row, a succeeded row whose response is not
\* the answer, and a row without a result whose answer value is null.
C20_Witness ==
    /\ Augmented /\ Len(df_results) = MaxRows
    /\ \E i \in 1..Len(df_results) : df_results[i].correct
    /\ \E i \in 1..Len(df_results) :
          /\ df_results[i].result_status = "succeeded"
          /\ ~df_results[i].correct
    /\ \E i \in 1..Len(df_results) :
          /\ df_results[i].result_status # "succeeded"
          /\ df_results[i].row[config.answer_column] = None
          /\ ~df_results[i].correct

\* C21: when a resumed run of a sequential script finishes, the output
\* artifact holds one row for every item of the dataset, in the dataset's
\* order; a row answered in the checkpoint the run started from keeps the
\* checkpointed response, and every other row was called in this run and
\* carries what its call returned or the marker of the error it raised.
C21_ResumedArtifactComplete ==
    (runner \in Scripts /\ spc = "finished") =>
        /\ out_file.exists
        /\ Len(out_file.rows) = Len(ids)
        /\ \A k \in 1..Len(ids) :
              LET row == out_file.rows[k]
              IN  /\ row.id = ids[k]
                  /\ IsDone(prev, ids[k]) =>
                        /\ row.response = DoneResponse(prev, ids[k])
                        /\ \A c \in 1..Len(calls) : calls[c] # ids[k]
                  /\ ~IsDone(prev, ids[k]) =>
                        /\ \E c \in 1..Len(calls) : calls[c] = ids[k]
                        /\ row.response \in ResponseTexts \cup Markers

\* A finished run over three rows that resumed from a checkpoint answering
\* the first of them and called the other two, which both answered.
C21_Witness ==
    /\ runner \in Scripts /\ spc = "finished"
    /\ Len(ids) = MaxN /\ IsDone(prev, ids[1])
    /\ Len(calls) = MaxN - 1
    /\ \A k \in 1..Len(ids) : out_file.rows[k].response = "A"

\* The positions of a batch run from its poll loop on, and from the retrieval
\* of the results on.
FromPoll == {"poll", "poll_sleep", "retrieve", "merge"} \cup AfterRun
FromRetrieve == {"retrieve", "merge"} \cup AfterRun

\* The status with which a provider's poll loop returns.
PollReturnStatus(p) == IF p = "claude" THEN "ended" ELSE "completed"

\* C22: a batch run goes build, submit, poll, retrieve, reconcile in that
\* order. Submit is invoked at most once in a run, and exactly once in a run
\* that has reached its poll loop, however the polls went; the requests are
\* built before it; results are retrieved only when a poll has seen the job
\* in its terminal status; and the table is reconciled only afterwards.
C22_BatchStepOrder ==
    provider \in BatchProviders =>
        /\ job.submits <= 1
        /\ pc \in {"run", "submit"} => job.submits = 0 /\ ~job.exists
        /\ pc = "run" => requests = <<>>
        /\ pc \in {"submit"} \cup FromPoll =>
              requests = BuildRequests(df, config)
        /\ pc \in FromPoll => job.submits = 1 /\ job.exists
        /\ pc \in FromRetrieve => job.status = PollReturnStatus(provider)
        /\ pc \in {"run", "submit", "poll", "poll_sleep", "retrieve"} =>
              /\ content = <<>> /\ result_map = EmptyMap
        /\ pc \in {"run", "submit", "poll", "poll_sleep", "retrieve", "merge"} =>
              df_results = <<>>
        /\ pc \in AfterRun => Len(df_results) = Len(df)
        /\ (pc = "aborted" /\ err = "RuntimeError") =>
              /\ job.submits = 1 /\ result_map = EmptyMap /\ df_results = <<>>

\* A GPT-5 run about to reconcile: one submission, a completed job, and a
\* result map that holds a result for every request.
C22_Witness ==
    /\ provider = "gpt5" /\ pc = "merge"
    /\ job.submits = 1 /\ job.status = "completed"
    /\ Len(requests) = MaxRows
    /\ Cardinality(DOMAIN result_map) = MaxRows

\* C23: batch submission is atomic. After the submit step either the job
\* exists at the provider (with every request built for the dataset), or the
\* step raised and nothing was created there: no uploaded input file is left
\* without a job.
C23_SubmitAtomic ==
    (provider \in BatchProviders /\ job.submits >= 1) =>
        \/ job.exists /\ Len(requests) = Len(df) /\ pc # "submit"
        \/ ~job.exists /\ ~job.input_file /\ pc = "aborted" /\ err = "APIError"

\* The status the precedence of the rules gives an entry of the provider's
\* output: provider error, then truncation, then empty output, then failed
\* validation, then success.
StatusByPrecedence(e) ==
    IF provider = "claude"
    THEN IF e.type # "succeeded" THEN e.type
         ELSE IF e.truncated THEN "token_limit"
         ELSE IF ~e.has_content \/ Falsy(e.text) THEN "empty_content"
         ELSE IF ~Validates(e.text) THEN "parse_error"
         ELSE "succeeded"
    ELSE IF StatusCode(e) # 200 THEN "errored"
         ELSE IF e.finish_reason = "length" THEN "token_limit"
         ELSE IF Falsy(e.text) THEN "empty_content"
         ELSE IF ~Validates(e.text) THEN "parse_error"
         ELSE "succeeded"

\* The entries the rules speak of: for GPT-5, a line whose response has its
\* body and choices (or is no 200 response).
Classifiable(e) == provider = "gpt5" => ~(StatusCode(e) = 200 /\ RaisesBeforeContent(e))

\* C24: for every batch provider the result recorded for an item is the one
\* the precedence gives: errored for an item-level provider error; otherwise
\* token_limit for truncated output, also when it is empty or malformed;
\* otherwise empty_content for empty output; otherwise parse_error for output
\* that fails validation; otherwise succeeded with the validated label.
C24_ClassifierPrecedence ==
    (provider \in BatchProviders /\ pc \in {"merge"} \cup AfterRun) =>
        \A k \in Deciding :
            Classifiable(content[k]) =>
                LET got == result_map[content[k].custom_id]
                    want == StatusByPrecedence(content[k])
                IN  /\ got.result_status = want
                    /\ got.response = IF want = "succeeded" THEN content[k].text.answer
                                      ELSE None

\* The job ended as expired or canceled.
JobLapsed == job.exists /\ job.fate \in {"expired", "canceled"}

\* C25: when the job ended as expired (canceled), the run goes on to a result
\* table in which every requested item without a result of its own has
\* result_status expired (canceled), not missing: the poll does not end the
\* run, and a reconciled row whose identifier is not in the result map
\* carries the job's state.
C25_JobStatePropagatesToItems ==
    (provider \in BatchProviders /\ JobLapsed) =>
        /\ pc = "aborted" => err # "RuntimeError"
        /\ pc \in AfterRun =>
              \A i \in 1..Len(df_results) :
                  InId(i) \notin DOMAIN result_map
                      => df_results[i].result_status = job.fate

\* C26: in the table every provider returns (Claude, GPT-5, Gemini) a row's
\* response is non-null exactly when its result_status is succeeded, and a
\* non-null response is one of the labels A, B, C, D; the same holds of every
\* value of the result map and of Gemini's lists while the run builds them.
C26_ResponseIffSucceeded ==
    /\ \A c \in DOMAIN result_map :
          /\ result_map[c].response # None <=> result_map[c].result_status = "succeeded"
          /\ result_map[c].response # None => result_map[c].response \in Labels
    /\ \A k \in 1..Len(responses) :
          /\ responses[k].response # None <=> responses[k].result_status = "succeeded"
          /\ responses[k].response # None => responses[k].response \in Labels
    /\ (pc \in AfterRun /\ provider # "") =>
          \A i \in 1..Len(df_results) :
              /\ df_results[i].response # None <=> df_results[i].result_status = "succeeded"
              /\ df_results[i].response # None => df_results[i].response \in Labels

\* Gemini has returned a table with an answered row and a row whose output
\* was an object with a value that is no label.
C26_Witness ==
    /\ provider = "gemini" /\ pc = "returned"
    /\ \E i \in 1..Len(df_results) : df_results[i].response \in Labels
    /\ \E i \in 1..Len(df_results) :
          /\ content[i].text = TxtBadLabel
          /\ df_results[i].response = None

\* C27: every provider name that LLMConfig validation accepts is registered
\* once the llm package is imported: the provider of a loaded configuration
\* is a key of the registry, and no run of main that loaded its
\* configuration ends in get_provider's unknown-provider KeyError.
C27_AcceptedProviderResolves ==
    (entry = "main" /\ config # NoConfig) =>
        /\ config.provider \in Registry
        /\ ~(pc = "aborted" /\ err = "KeyError")

\* The artifact the run started from was written for this run's dataset and
\* holds a non-empty response for every identifier.
ResumedComplete ==
    /\ runner \in Scripts
    /\ [k \in 1..Len(prev) |-> prev[k].id] = ids
    /\ \A k \in 1..Len(prev) : prev[k].response # ""

Polling == pc \in {"poll", "poll_sleep"}
TerminalSeen ==
    IF provider = "claude" THEN job.status = "ended"
    ELSE job.status \in {"completed", "failed", "expired", "cancelled"}

====
